---- MODULE Spec2Model ----
(***************************************************************************)
(* A model of the RustPlus client of src/src/rustplus.ts: the connection   *)
(* lifecycle (connect, disconnect, the websocket's open / error / message  *)
(* / close handlers), the sequence counter, the callback registry          *)
(* seqCallbacks, sendRequest and sendRequestAsync with its timer.          *)
(*                                                                         *)
(* The transport is the WebSocket class of the package "ws" (^8.3.0, see   *)
(* src/unnamed/part_000).  Of it the model keeps readyState and the four   *)
(* signals, and what the calls the client makes on it do:                  *)
(*   new WebSocket(a)  readyState CONNECTING                               *)
(*   send(bytes)       throws while CONNECTING, writes while OPEN, and is  *)
(*                     dropped without a signal while CLOSING or CLOSED    *)
(*   terminate()       CLOSED stays CLOSED, every other state becomes      *)
(*                     CLOSING; the 'close' signal is delivered later      *)
(* The handlers are closures over the client, not over one socket, and are *)
(* never removed: a socket that was replaced still delivers its signals.   *)
(* Frames are delivered by a socket whose readyState is OPEN; frames a     *)
(* socket may still hand over while it is being closed are left out.       *)
(***************************************************************************)
EXTENDS Integers, Sequences, FiniteSets, TLC

\* ------------------------------------------------------------------ bounds
MaxSeq == 2        \* sequence numbers the model allocates
MaxSockets == 2    \* WebSocket objects the model creates (connect() calls)
MaxAsync == 1      \* sendRequestAsync calls
MaxCalls == 2      \* invocations of one registered callback

SeqIds == 1..MaxSeq
RegKeys == 0..MaxSeq   \* the keys a registry lookup can be made with
SockIds == 1..MaxSockets
PromiseIds == 1..MaxAsync

VARIABLES
    seq,            \* this.seq
    seqCallbacks,   \* this.seqCallbacks: sequence number -> callback
    AppRequest,     \* this.AppRequest is defined
    AppMessage,     \* this.AppMessage is defined
    websocket,      \* this.websocket: Undefined, Null or a socket id
    sockets,        \* the WebSocket objects created so far: their readyState
    promises,       \* the promises sendRequestAsync returned, with their timers
    calls,          \* how often the callback registered under s was invoked
    dispatched,     \* currentSeq of every request sendRequest built, in order
    last            \* what the last operation was and what it did

vars == <<seq, seqCallbacks, AppRequest, AppMessage, websocket, sockets,
          promises, calls, dispatched, last>>

\* ------------------------------------------------------------- callbacks
\* A callback is caller code; what matters to the client is what it does when
\* invoked: "T" returns a truthy value, "F" returns a falsy value or nothing,
\* "X" throws, "R" calls sendRequest with the callback Nested and returns
\* nothing, "A" is the callback sendRequestAsync builds for promise p.
NoCb == [k |-> "none", p |-> 0]
UserCb(k) == [k |-> k, p |-> 0]
AsyncCb(p) == [k |-> "A", p |-> p]
UserCallbacks == {UserCb("T"), UserCb("F"), UserCb("X"), UserCb("R")}
Nested == UserCb("T")

\* --------------------------------------------------------------- payloads
\* Of the payload a caller gives to sendRequest the model keeps the fields
\* that name the sequence and the player: each is absent or holds a value of
\* the caller.  The declared parameter type (sendRequestData) omits the three
\* fields; a caller that bypasses the type, or calls the compiled code, can
\* pass them.
NoField == 0
NoFields == [seq |-> NoField, playerId |-> "none", playerToken |-> "none"]
TypedPayloads == {NoFields}
Payloads == [seq : {NoField} \cup SeqIds,
             playerId : {"none", "foreign"},
             playerToken : {"none", "foreign"}]

\* ------------------------------------------------------------------ codec
\* Bytes on the wire are tuples <<tag, seq, error, body>>; a decoded message is
\* a record.  "bad" bytes do not decode: fromBinary throws.
Bodies == {"x", "y"}
NoMsg == [response |-> FALSE, seq |-> 0, error |-> FALSE, body |-> "none"]
Frames ==
    {<<"resp", s, FALSE, b>> : s \in 0..MaxSeq, b \in Bodies}
    \cup {<<"resp", s, TRUE, "AppError">> : s \in 0..MaxSeq}
    \cup {<<"bcast", 0, FALSE, "x">>, <<"bad", 0, FALSE, "none">>}

Decodes(data) == data[1] # "bad"

FromBinary(data) ==
    [response |-> data[1] = "resp", seq |-> data[2],
     error |-> data[3], body |-> data[4]]

\* ---------------------------------------------------------------- events
Ev(name, msg) == [name |-> name, msg |-> msg]
Names(evs) == [i \in 1..Len(evs) |-> evs[i].name]
Count(evs, name) == Cardinality({i \in 1..Len(evs) : evs[i].name = name})

\* The record of one operation: op, the socket it concerns (0: none), the bytes
\* or callback given, whether it raised, the notifications it emitted in order,
\* the sequence numbers whose callbacks it invoked with their argument and
\* result, and the frames it wrote to the transport.
NoData == <<"none", 0, FALSE, "none">>
Step(op, sock, data, cb, thrown, events, invoked, wrote) ==
    [op |-> op, sock |-> sock, data |-> data, cb |-> cb, thrown |-> thrown,
     events |-> events, invoked |-> invoked, wrote |-> wrote]

\* ------------------------------------------------------------- transport
\* this.websocket is undefined until the first connect() and null after
\* disconnect(); otherwise it holds a socket, here its id in SockIds.
Undefined == 0
Null == -1
Absent == {Undefined, Null}
NoSocket == [rs |-> "NONE"]
Created == {i \in SockIds : sockets[i].rs # "NONE"}

\* websocket.terminate()
Terminate(s) ==
    IF s.rs = "CLOSED" THEN s ELSE [s EXCEPT !.rs = "CLOSING"]

\* websocket.send(bytes): "throw", "written" or "dropped"
WsSend(rs) ==
    CASE rs = "CONNECTING" -> "throw"
      [] rs = "OPEN" -> "written"
      [] OTHER -> "dropped"

\* ------------------------------------------------------------------ Init
Init ==
    /\ seq = 0
    /\ seqCallbacks = [s \in RegKeys |-> NoCb]
    /\ AppRequest = FALSE
    /\ AppMessage = FALSE
    /\ websocket = Undefined
    /\ sockets = [i \in SockIds |-> NoSocket]
    /\ promises = [p \in PromiseIds |->
                     [st |-> "unused", val |-> "none", timer |-> "none", n |-> 0]]
    /\ calls = [s \in RegKeys |-> 0]
    /\ dispatched = <<>>
    /\ last = Step("init", 0, NoData, NoCb, FALSE, <<>>, <<>>, <<>>)

\* ------------------------------------------------------------ disconnect
\* disconnect(): the sockets after it, and the handle after it
DisconnectSocketsUntouched == sockets

DisconnectSockets ==
    IF websocket \in Absent THEN sockets
    ELSE [sockets EXCEPT ![websocket] = Terminate(@)]

DisconnectHandleKept == websocket

DisconnectHandle ==
    IF websocket \in Absent THEN websocket ELSE Null

DisconnectClearing ==
    /\ sockets' = DisconnectSockets
    /\ websocket' = DisconnectHandle
    /\ seqCallbacks' = [s \in RegKeys |-> NoCb]
    /\ last' = Step("disconnect", 0, NoData, NoCb, FALSE, <<>>, <<>>, <<>>)
    /\ UNCHANGED <<seq, AppRequest, AppMessage, promises, calls, dispatched>>

Disconnect ==
    /\ sockets' = DisconnectSockets
    /\ websocket' = DisconnectHandle
    /\ last' = Step("disconnect", 0, NoData, NoCb, FALSE, <<>>, <<>>, <<>>)
    /\ UNCHANGED <<seq, seqCallbacks, AppRequest, AppMessage, promises, calls,
                   dispatched>>

\* ----------------------------------------------------------- isConnected
\* this.websocket != null && this.websocket.readyState === WebSocket.OPEN;
\* "TypeError" stands for reading readyState of undefined or null.
IsConnectedAnyHandle(ws, socks) == IF ws \in Absent THEN "false" ELSE "true"

IsConnected(ws, socks) ==
    IF ws \in Absent THEN "false"
    ELSE IF socks[ws].rs = "OPEN" THEN "true" ELSE "false"

\* --------------------------------------------------------------- connect
NewSocket == Cardinality(Created) + 1

ConnectQuiet ==
    /\ Cardinality(Created) < MaxSockets
    /\ AppRequest' = TRUE
    /\ AppMessage' = TRUE
    /\ sockets' = [DisconnectSockets EXCEPT
                     ![NewSocket] = [rs |-> "CONNECTING"]]
    /\ websocket' = NewSocket
    /\ last' = Step("connect", NewSocket, NoData, NoCb, FALSE, <<>>, <<>>, <<>>)
    /\ UNCHANGED <<seq, seqCallbacks, promises, calls, dispatched>>

Connect ==
    /\ Cardinality(Created) < MaxSockets
    /\ AppRequest' = TRUE
    /\ AppMessage' = TRUE
    /\ sockets' = [DisconnectSockets EXCEPT
                     ![NewSocket] = [rs |-> "CONNECTING"]]
    /\ websocket' = NewSocket
    /\ last' = Step("connect", NewSocket, NoData, NoCb, FALSE,
                    <<Ev("connecting", NoMsg)>>, <<>>, <<>>)
    /\ UNCHANGED <<seq, seqCallbacks, promises, calls, dispatched>>

\* ----------------------------------------------------------- sendRequest
\* if (!this.AppRequest || !this.websocket) return;
ReadyCodecOnly(appRequest, ws) == appRequest

Ready(appRequest, ws) == appRequest /\ ws \notin Absent

\* ++this.seq: the counter after it, and the value of the expression
NextSeq(s) == s + 1

CurrentSeqPostIncrement(s) == s

CurrentSeq(s) == NextSeq(s)

\* if (callback) this.seqCallbacks[currentSeq] = callback;
RegisterAtPrevious(reg, s, cb) ==
    IF cb = NoCb THEN reg ELSE [reg EXCEPT ![s - 1] = cb]

Register(reg, s, cb) == IF cb = NoCb THEN reg ELSE [reg EXCEPT ![s] = cb]

\* {seq: currentSeq, playerId: this._playerId, playerToken: this._playerToken,
\*  ...data}: a field of data replaces the field of the same name before it
Merge(s, data) ==
    [seq |-> IF data.seq = NoField THEN s ELSE data.seq,
     playerId |-> IF data.playerId = "none" THEN "own" ELSE data.playerId,
     playerToken |-> IF data.playerToken = "none" THEN "own"
                     ELSE data.playerToken]

\* AppRequest.toBinary(object) and AppRequest.fromBinary(bytes)
ToBinary(obj) == <<"req", obj.seq, obj.playerId, obj.playerToken>>

RequestFromBinary(bytes) ==
    [seq |-> bytes[2], playerId |-> bytes[3], playerToken |-> bytes[4]]

\* What one call of sendRequest(data, cb) does in the current state: whether
\* it passed its guard, the counter, registry and log after it, whether it
\* raised, the send it attempted and the notifications it emitted.
NoEffectCounting ==
    [ran |-> FALSE, seq |-> IF seq < MaxSeq THEN seq + 1 ELSE seq,
     reg |-> seqCallbacks, log |-> dispatched,
     thrown |-> FALSE, wrote |-> <<>>, events |-> <<>>]

NoEffect ==
    [ran |-> FALSE, seq |-> seq, reg |-> seqCallbacks, log |-> dispatched,
     thrown |-> FALSE, wrote |-> <<>>, events |-> <<>>]

SendRequestResult(data, cb) ==
    IF ~Ready(AppRequest, websocket) THEN NoEffect
    ELSE LET currentSeq == CurrentSeq(seq)
             request == ToBinary(Merge(currentSeq, data))
             out == IF websocket \in Absent THEN "throw"  \* a TypeError
                    ELSE WsSend(sockets[websocket].rs)
         IN  [ran |-> TRUE,
              seq |-> NextSeq(seq),
              reg |-> Register(seqCallbacks, currentSeq, cb),
              log |-> Append(dispatched, currentSeq),
              thrown |-> out = "throw",
              wrote |-> <<[out |-> out, frame |-> request, data |-> data,
                           seq |-> currentSeq]>>,
              events |-> IF out = "throw" THEN <<>>
                         ELSE <<Ev("request", RequestFromBinary(request))>>]

\* The model allocates at most MaxSeq sequence numbers.
CanSend == ~Ready(AppRequest, websocket)
           \/ (seq < MaxSeq /\ Len(dispatched) < MaxSeq)

SendRequest(data, cb) ==
    /\ CanSend
    /\ LET r == SendRequestResult(data, cb) IN
        /\ seq' = r.seq
        /\ seqCallbacks' = r.reg
        /\ dispatched' = r.log
        /\ last' = Step("sendRequest", 0, NoData, cb, r.thrown, r.events,
                        <<>>, r.wrote)
    /\ UNCHANGED <<AppRequest, AppMessage, websocket, sockets, promises, calls>>

\* ------------------------------------------------------ sendRequestAsync
\* resolve / reject of a promise: only the first one takes effect
Settle(pr, st, val) ==
    IF pr.st = "pending"
    THEN [pr EXCEPT !.st = st, !.val = val, !.n = @ + 1]
    ELSE pr

\* clearTimeout(timeout)
ClearTimeout(pr) ==
    IF pr.timer = "armed" THEN [pr EXCEPT !.timer = "cleared"] ELSE pr

\* the callback sendRequestAsync passes to sendRequest
AsyncCallback(pr, m) ==
    IF m.error
    THEN Settle(ClearTimeout(pr), "rejected", "AppError")
    ELSE Settle(ClearTimeout(pr), "resolved", m.body)

Used == {p \in PromiseIds : promises[p].st # "unused"}
NewPromise == Cardinality(Used) + 1

\* new Promise(executor): setTimeout, then sendRequest; an exception of the
\* executor rejects the promise.
SendRequestAsync(data) ==
    /\ Cardinality(Used) < MaxAsync
    /\ CanSend
    /\ LET p == NewPromise
           r == SendRequestResult(data, AsyncCb(p))
           armed == [st |-> "pending", val |-> "none", timer |-> "armed", n |-> 0]
       IN
        /\ seq' = r.seq
        /\ seqCallbacks' = r.reg
        /\ dispatched' = r.log
        /\ promises' = [promises EXCEPT ![p] =
                          IF r.thrown THEN Settle(armed, "rejected", "SendError")
                          ELSE armed]
        /\ last' = Step("sendRequestAsync", 0, NoData, AsyncCb(p), FALSE,
                        r.events, <<>>, r.wrote)
    /\ UNCHANGED <<AppRequest, AppMessage, websocket, sockets, calls>>

\* the setTimeout callback: reject(new Error("Timeout reached ..."))
Timeout(p) ==
    /\ promises[p].timer = "armed"
    /\ promises' = [promises EXCEPT ![p] =
                      Settle([@ EXCEPT !.timer = "fired"], "rejected", "Timeout")]
    /\ last' = Step("timeout", 0, NoData, AsyncCb(p), FALSE, <<>>, <<>>, <<>>)
    /\ UNCHANGED <<seq, seqCallbacks, AppRequest, AppMessage, websocket,
                   sockets, calls, dispatched>>

\* ------------------------------------------------- the websocket's signals
\* websocket.on("open"): ws sets readyState OPEN and emits 'open'
OpenSignal(i) ==
    /\ sockets[i].rs = "CONNECTING"
    /\ sockets' = [sockets EXCEPT ![i].rs = "OPEN"]
    /\ last' = Step("open", i, NoData, NoCb, FALSE,
                    <<Ev("connected", NoMsg)>>, <<>>, <<>>)
    /\ UNCHANGED <<seq, seqCallbacks, AppRequest, AppMessage, websocket,
                   promises, calls, dispatched>>

\* websocket.on("error", (e) => this.emit("error", e)); the error values a
\* socket reports are opaque to the client
ErrorValues == {"e1", "e2"}
ErrorValueLost(e) == NoMsg

ErrorValue(e) == [NoMsg EXCEPT !.body = e]

ErrorSignal(i, e) ==
    /\ sockets[i].rs \in {"CONNECTING", "OPEN", "CLOSING"}
    /\ last' = Step("error", i, NoData, NoCb, FALSE,
                    <<Ev("error", ErrorValue(e))>>, <<>>, <<>>)
    /\ UNCHANGED <<seq, seqCallbacks, AppRequest, AppMessage, websocket,
                   sockets, promises, calls, dispatched>>

\* The peer or a failure starts closing the socket: ws sets readyState
\* CLOSING; no handler of the client runs.
PeerClosing(i) ==
    /\ sockets[i].rs \in {"CONNECTING", "OPEN"}
    /\ sockets' = [sockets EXCEPT ![i].rs = "CLOSING"]
    /\ last' = Step("closing", i, NoData, NoCb, FALSE, <<>>, <<>>, <<>>)
    /\ UNCHANGED <<seq, seqCallbacks, AppRequest, AppMessage, websocket,
                   promises, calls, dispatched>>

\* websocket.on("close"): ws sets readyState CLOSED and emits 'close'
CloseSignalReconnecting(i) ==
    /\ sockets[i].rs \in {"CONNECTING", "OPEN", "CLOSING"}
    /\ sockets' = IF Cardinality(Created) < MaxSockets
                  THEN [sockets EXCEPT ![i].rs = "CLOSED",
                                       ![NewSocket] = [rs |-> "CONNECTING"]]
                  ELSE [sockets EXCEPT ![i].rs = "CLOSED"]
    /\ websocket' = IF Cardinality(Created) < MaxSockets THEN NewSocket
                    ELSE websocket
    /\ last' = Step("close", i, NoData, NoCb, FALSE,
                    <<Ev("disconnected", NoMsg)>>, <<>>, <<>>)
    /\ UNCHANGED <<seq, seqCallbacks, AppRequest, AppMessage, promises, calls,
                   dispatched>>

CloseSignal(i) ==
    /\ sockets[i].rs \in {"CONNECTING", "OPEN", "CLOSING"}
    /\ sockets' = [sockets EXCEPT ![i].rs = "CLOSED"]
    /\ last' = Step("close", i, NoData, NoCb, FALSE,
                    <<Ev("disconnected", NoMsg)>>, <<>>, <<>>)
    /\ UNCHANGED <<seq, seqCallbacks, AppRequest, AppMessage, websocket,
                   promises, calls, dispatched>>

\* ---------------------------------------------- websocket.on("message")
\* message.response && message.response.seq && this.seqCallbacks[seq]
Matches(reg, m) == m.response /\ m.seq # 0 /\ reg[m.seq] # NoCb

\* what the callback does when invoked: "truthy", "falsy" or "throw"
Invoke(cb) ==
    CASE cb.k = "T" -> "truthy"
      [] cb.k = "X" -> "throw"
      [] OTHER -> "falsy"

\* delete this.seqCallbacks[message.response.seq]
RemoveAll(reg, s) == [k \in DOMAIN reg |-> NoCb]

RemoveNothing(reg, s) == reg

Remove(reg, s) == [reg EXCEPT ![s] = NoCb]

\* if (result) return;
SuppressNever(result) == FALSE

Suppress(result) == result = "truthy"

\* this.emit("message", this.AppMessage.fromBinary(data))
EmitMessage(data) == <<Ev("message", FromBinary(data))>>

\* callback(message): what the callback's own code does to the client before
\* it returns; only the re-entrant callback calls into the client.
CallbackRun(cb) ==
    IF cb.k = "R" THEN SendRequestResult(NoFields, Nested) ELSE NoEffect

\* What the handler does with the bytes `data` in the current state.
MessageResult(data) ==
    LET quiet == [seq |-> seq, reg |-> seqCallbacks, log |-> dispatched,
                  promises |-> promises, calls |-> calls, thrown |-> FALSE,
                  events |-> <<>>, invoked |-> <<>>, wrote |-> <<>>]
    IN
    IF ~AppMessage THEN quiet
    ELSE IF ~Decodes(data) THEN [quiet EXCEPT !.thrown = TRUE]
    ELSE LET message == FromBinary(data) IN
         IF Matches(seqCallbacks, message)
         THEN LET s == message.seq
                  callback == seqCallbacks[s]
                  c == CallbackRun(callback)
                  result == IF c.thrown THEN "throw" ELSE Invoke(callback)
                  settled == IF callback.k = "A"
                             THEN [promises EXCEPT ![callback.p] =
                                     AsyncCallback(@, message)]
                             ELSE promises
                  inv == <<[seq |-> s, cb |-> callback, arg |-> message,
                            result |-> result]>>
                  called == [quiet EXCEPT !.seq = c.seq, !.reg = c.reg,
                                          !.log = c.log, !.calls[s] = @ + 1,
                                          !.events = c.events,
                                          !.wrote = c.wrote, !.invoked = inv]
              IN  IF result = "throw"
                  THEN [called EXCEPT !.thrown = TRUE]
                  ELSE [called EXCEPT
                          !.reg = Remove(c.reg, s),
                          !.promises = settled,
                          !.events = c.events \o (IF Suppress(result) THEN <<>>
                                                  ELSE EmitMessage(data))]
         ELSE [quiet EXCEPT !.events = EmitMessage(data)]

\* ws delivers the frames of an open socket.
Message(i, data) ==
    /\ sockets[i].rs = "OPEN"
    /\ LET m == FromBinary(data) IN
         (Decodes(data) /\ Matches(seqCallbacks, m)) =>
             /\ calls[m.seq] < MaxCalls
             /\ seqCallbacks[m.seq].k = "R" => CanSend
    /\ LET r == MessageResult(data) IN
        /\ seq' = r.seq
        /\ seqCallbacks' = r.reg
        /\ dispatched' = r.log
        /\ promises' = r.promises
        /\ calls' = r.calls
        /\ last' = Step("message", i, data, NoCb, r.thrown, r.events,
                        r.invoked, r.wrote)
    /\ UNCHANGED <<AppRequest, AppMessage, websocket, sockets>>

\* The client driven through connect(), disconnect() and sendRequest().
Next ==
    \/ Connect
    \/ Disconnect
    \/ \E data \in TypedPayloads, cb \in UserCallbacks \cup {NoCb} :
          SendRequest(data, cb)
    \/ \E i \in SockIds : OpenSignal(i)
    \/ \E i \in SockIds, e \in ErrorValues : ErrorSignal(i, e)
    \/ \E i \in SockIds : PeerClosing(i)
    \/ \E i \in SockIds : CloseSignal(i)
    \/ \E i \in SockIds, data \in Frames : Message(i, data)

Spec == Init /\ [][Next]_vars

\* The same client driven through sendRequestAsync(), and through
\* sendRequest() without a callback.
NextAsync ==
    \/ Connect
    \/ Disconnect
    \/ SendRequest(NoFields, NoCb)
    \/ \E data \in TypedPayloads : SendRequestAsync(data)
    \/ \E p \in PromiseIds : Timeout(p)
    \/ \E i \in SockIds : OpenSignal(i)
    \/ \E i \in SockIds, e \in ErrorValues : ErrorSignal(i, e)
    \/ \E i \in SockIds : PeerClosing(i)
    \/ \E i \in SockIds : CloseSignal(i)
    \/ \E i \in SockIds, data \in Frames : Message(i, data)

SpecAsync == Init /\ [][NextAsync]_vars

\* The same client given payloads that carry sequence and identity fields.
NextUntyped ==
    \/ Connect
    \/ Disconnect
    \/ \E data \in Payloads, cb \in {NoCb, UserCb("F")} : SendRequest(data, cb)
    \/ \E i \in SockIds : OpenSignal(i)
    \/ \E i \in SockIds, e \in ErrorValues : ErrorSignal(i, e)
    \/ \E i \in SockIds : PeerClosing(i)
    \/ \E i \in SockIds : CloseSignal(i)
    \/ \E i \in SockIds, data \in Frames : Message(i, data)

SpecUntyped == Init /\ [][NextUntyped]_vars

\* The client of a caller that sends its requests on the first connection
\* only (or without a handle) and reconnects afterwards: every registry entry
\* was registered while the handle held the first socket.
FirstConnectionCallbacks == {UserCb("T"), UserCb("F"), UserCb("X")}

NextReconnect ==
    \/ Connect
    \/ Disconnect
    \/ /\ websocket \in Absent \cup {1}
       /\ \E data \in TypedPayloads, cb \in FirstConnectionCallbacks :
             SendRequest(data, cb)
    \/ \E i \in SockIds : OpenSignal(i)
    \/ \E i \in SockIds, e \in ErrorValues : ErrorSignal(i, e)
    \/ \E i \in SockIds : PeerClosing(i)
    \/ \E i \in SockIds : CloseSignal(i)
    \/ \E i \in SockIds, data \in Frames : Message(i, data)

SpecReconnect == Init /\ [][NextReconnect]_vars

\* ================================================================ claims
Sends == {"sendRequest", "sendRequestAsync"}
IsMessage(e) == e.name = "message"
Messages(evs) == SelectSeq(evs, IsMessage)

\* C1: the requests sendRequest builds carry the sequence numbers 1, 2, 3, ...
\* in the order they are built, whatever connect(), disconnect() and the
\* transport's signals happened in between: the k-th carries k, so the numbers
\* are strictly increasing, never reused and never reset; the frame handed to
\* the transport carries the number just allocated.
C1_SequenceNumbers ==
    /\ \A i \in 1..Len(dispatched) : dispatched[i] = i
    /\ Len(dispatched) = seq
    /\ (last.op \in Sends /\ last.wrote # <<>>) =>
           /\ Len(last.wrote) = 1
           /\ last.wrote[1].frame[2] = dispatched[Len(dispatched)]

\* two requests were dispatched, the second on the second transport
C1_Witness ==
    /\ dispatched = <<1, 2>>
    /\ last.op = "sendRequest"
    /\ last.wrote # <<>> /\ last.wrote[1].out = "written"
    /\ websocket = 2

\* C2 (as claimed): after a response frame carrying sequence s was handled,
\* the registry has no entry for s and the callback registered under s was
\* invoked no more than once; a frame that invoked no callback was delivered
\* as a 'message' notification.
C2_Claim ==
    (last.op = "message" /\ Decodes(last.data)
        /\ FromBinary(last.data).response
        /\ FromBinary(last.data).seq \in SeqIds) =>
    LET s == FromBinary(last.data).seq IN
        /\ seqCallbacks[s] = NoCb
        /\ calls[s] <= 1
        /\ (last.invoked = <<>> => Names(last.events) = <<"message">>)

\* C3: a frame matched to a pending callback that returns a truthy value
\* emits no 'message' notification; one whose callback returns a falsy value
\* or nothing emits exactly one, carrying what the callback received.
C3_Suppression ==
    (last.op = "message" /\ last.invoked # <<>>) =>
        /\ last.invoked[1].result = "truthy" => Count(last.events, "message") = 0
        /\ last.invoked[1].result = "falsy" =>
               Messages(last.events) = <<Ev("message", last.invoked[1].arg)>>

C3_Witness ==
    /\ last.op = "message"
    /\ last.invoked # <<>>
    /\ last.invoked[1].cb = UserCb("F")
    /\ last.events = <<Ev("message", FromBinary(last.data))>>
    /\ seqCallbacks[last.invoked[1].seq] = NoCb
\* C4 (as claimed): when a response frame carrying sequence s is handled while
\* the registry holds under s the callback of a sendRequestAsync call whose
\* timer has not fired, the promise of that call is afterwards resolved with
\* the response (no error indicator) or rejected with its error indicator, and
\* the timer is cleared; a cleared timer stays cleared.
C4_Claim ==
    [][\A p \in PromiseIds :
        /\ (/\ last'.op = "message"
            /\ last'.invoked # <<>>
            /\ last'.invoked[1].cb = AsyncCb(p)
            /\ promises[p].timer = "armed") =>
              LET m == last'.invoked[1].arg IN
                /\ promises'[p].timer = "cleared"
                /\ m.error => /\ promises'[p].st = "rejected"
                              /\ promises'[p].val = "AppError"
                /\ ~m.error => /\ promises'[p].st = "resolved"
                               /\ promises'[p].val = m.body
        /\ promises[p].timer = "cleared" => promises'[p].timer = "cleared"
      ]_vars

\* C5 (as claimed): a promise whose timer fired is rejected with the timeout
\* error, and stays so whatever frames arrive afterwards.
C5_Claim ==
    \A p \in PromiseIds :
        promises[p].timer = "fired" =>
            promises[p].st = "rejected" /\ promises[p].val = "Timeout"

\* C6 (as claimed): every promise of sendRequestAsync is settled at most once,
\* and a settled one was settled by the timeout, by a response's error
\* indicator or by a response, in whatever connection state it was created.
C6_Claim ==
    \A p \in PromiseIds :
        /\ promises[p].n <= 1
        /\ promises[p].st = "pending" => promises[p].n = 0
        /\ promises[p].st = "rejected" => promises[p].val \in {"Timeout", "AppError"}
        /\ promises[p].st = "resolved" => promises[p].val \in Bodies

\* C7: isConnected() never raises.  It is false before the first connect(),
\* false after connect() until the 'open' signal, false right after
\* disconnect() and right after the 'close' signal of the handle's socket; it
\* becomes true only by the 'open' signal of the handle's socket, and while it
\* is true the handle holds a socket that is neither connecting nor closed.
IsConnectedNow == IsConnected(websocket, sockets)

C7_IsConnected ==
    /\ IsConnectedNow = "false"
    /\ [][/\ IsConnectedNow' \in {"true", "false"}
          /\ Created' = {} => IsConnectedNow' = "false"
          /\ last'.op \in {"connect", "disconnect"} => IsConnectedNow' = "false"
          /\ (last'.op = "close" /\ last'.sock = websocket') =>
                 IsConnectedNow' = "false"
          /\ (IsConnectedNow' = "true" /\ IsConnectedNow # "true") =>
                 last'.op = "open" /\ last'.sock = websocket'
          /\ IsConnectedNow' = "true" =>
                 /\ websocket' \in Created'
                 /\ sockets'[websocket'].rs \notin {"CONNECTING", "CLOSED"}
      ]_vars

\* connected again: the second socket's 'open' signal after a reconnect
C7_Witness ==
    /\ IsConnectedNow = "true"
    /\ websocket = 2
    /\ last.op = "open" /\ last.sock = 2
    /\ sockets[1].rs = "CLOSED"

\* C8: disconnect() never raises and emits nothing.  Without a handle it
\* changes nothing.  With a handle it terminates the handle's socket, clears
\* the handle and changes nothing else, and a second disconnect() in the state
\* it leaves would change nothing.
Terminated(before, after) ==
    after.rs \in {"CLOSING", "CLOSED"} /\ (before.rs = "CLOSED" => after = before)

C8_Disconnect ==
    [][last'.op = "disconnect" =>
        /\ ~last'.thrown
        /\ last'.events = <<>>
        /\ UNCHANGED <<seq, seqCallbacks, AppRequest, AppMessage, promises,
                       calls, dispatched>>
        /\ websocket \in Absent => UNCHANGED <<websocket, sockets>>
        /\ websocket \notin Absent =>
             /\ websocket' = Null
             /\ Terminated(sockets[websocket], sockets'[websocket])
             /\ \A i \in SockIds \ {websocket} : sockets'[i] = sockets[i]
        /\ DisconnectSockets' = sockets'
        /\ DisconnectHandle' = websocket'
      ]_vars

\* disconnect() has terminated a connection that was open
C8_Witness ==
    /\ last.op = "disconnect"
    /\ websocket = Null
    /\ \E i \in SockIds : sockets[i].rs = "CLOSING"

\* C9: sendRequest without a handle or without the codec changes neither the
\* counter nor the registry, writes nothing, emits nothing and raises nothing.
C9_NoHandleNoOp ==
    [][(last'.op = "sendRequest" /\ (websocket \in Absent \/ ~AppRequest)) =>
        /\ UNCHANGED <<seq, seqCallbacks, AppRequest, AppMessage, websocket,
                       sockets, promises, calls, dispatched>>
        /\ last'.wrote = <<>>
        /\ last'.events = <<>>
        /\ ~last'.thrown
      ]_vars

\* sendRequest with a callback was called after disconnect(), requests having
\* been dispatched before
C9_Witness ==
    /\ last.op = "sendRequest"
    /\ last.cb # NoCb
    /\ websocket = Null
    /\ seq = 1

\* C10 (as claimed): sendRequest with a handle whose socket is not open
\* changes neither the counter nor the registry, writes nothing and raises
\* nothing.
C10_Claim ==
    [][(/\ last'.op = "sendRequest"
        /\ websocket \notin Absent
        /\ sockets[websocket].rs # "OPEN") =>
        /\ UNCHANGED <<seq, seqCallbacks, dispatched>>
        /\ \A i \in 1..Len(last'.wrote) : last'.wrote[i].out # "written"
        /\ ~last'.thrown
      ]_vars

\* C11: the registry never has an entry under the key 0, and a frame that
\* decodes to a response carrying sequence 0 invokes no callback and is
\* emitted as exactly one 'message' notification, with pending entries in the
\* registry or without.
C11_ZeroReserved ==
    /\ seqCallbacks[0] = NoCb
    /\ (/\ last.op = "message"
        /\ Decodes(last.data)
        /\ FromBinary(last.data).response
        /\ FromBinary(last.data).seq = 0) =>
           /\ last.invoked = <<>>
           /\ calls[0] = 0
           /\ ~last.thrown
           /\ last.events = <<Ev("message", FromBinary(last.data))>>

\* a response carrying sequence 0 arrived while two callbacks were pending
C11_Witness ==
    /\ last.op = "message"
    /\ FromBinary(last.data).response
    /\ FromBinary(last.data).seq = 0
    /\ \A s \in SeqIds : seqCallbacks[s] # NoCb
    /\ last.events = <<Ev("message", FromBinary(last.data))>>

\* C12 (as claimed): a response with the error indicator that is matched to a
\* pending callback, of sendRequest or of sendRequestAsync, emits no 'message'
\* notification; the promise of a matched sendRequestAsync call that was
\* pending is rejected with the error indicator.
C12_Claim ==
    (last.op = "message" /\ last.invoked # <<>> /\ last.invoked[1].arg.error) =>
        /\ Count(last.events, "message") = 0
        /\ \A p \in PromiseIds :
              (last.invoked[1].cb = AsyncCb(p) /\ promises[p].timer = "cleared")
                  => promises[p].st = "rejected"

\* C13: of the sockets connect() created, only the one the handle holds can
\* be connecting or open: every other one was terminated (closing or closed),
\* and without a handle none is connecting or open.  connect() with a handle
\* leaves the old socket terminated and the handle on the new socket.
Live == {i \in Created : sockets[i].rs \in {"CONNECTING", "OPEN"}}

C13_OneLiveHandle ==
    /\ Cardinality(Live) <= 1
    /\ \A i \in Live : websocket = i
    /\ websocket \notin Absent => websocket \in Created
    /\ last.op = "connect" =>
          /\ websocket = last.sock
          /\ sockets[websocket].rs = "CONNECTING"
          /\ \A i \in Created \ {websocket} :
                sockets[i].rs \in {"CLOSING", "CLOSED"}

\* connect() was called while the handle held the first socket
C13_Witness ==
    /\ last.op = "connect"
    /\ websocket = 2
    /\ sockets[1].rs = "CLOSING"
    /\ sockets[2].rs = "CONNECTING"

\* C14 (as claimed): whatever payload the caller gives, with or without seq,
\* playerId and playerToken fields of its own, the frame sendRequest hands to
\* the transport carries the sequence number sendRequest allocated for it (the
\* key the callback was registered under) and the client's player identifier
\* and credential.
C14_Claim ==
    (/\ last.op = "sendRequest"
     /\ last.wrote # <<>>
     /\ last.wrote[1].out = "written") =>
        LET w == last.wrote[1] IN
            /\ w.frame[2] = w.seq
            /\ last.cb # NoCb => seqCallbacks[w.frame[2]] = last.cb
            /\ w.frame[3] = "own"
            /\ w.frame[4] = "own"

\* C15 (as claimed): a frame that does not decode makes the handler emit one
\* 'error' notification and nothing else: the handler does not raise, invokes
\* no callback, emits no 'message', and leaves the registry, the counter, the
\* promises, the handle and the sockets as they were.
C15_Claim ==
    [][(last'.op = "message" /\ ~Decodes(last'.data)) =>
        /\ Names(last'.events) = <<"error">>
        /\ ~last'.thrown
        /\ last'.invoked = <<>>
        /\ UNCHANGED <<seq, seqCallbacks, promises, calls, websocket, sockets>>
      ]_vars

\* C16 (as claimed): one call of sendRequest or sendRequestAsync makes at most
\* one write attempt, no other operation writes a request, and a write that
\* did not reach the transport is reported by an 'error' notification of the
\* call, which does not raise.
C16_Claim ==
    /\ Len(last.wrote) <= 1
    /\ (last.wrote # <<>> /\ last.wrote[1].out # "written") =>
          /\ Count(last.events, "error") = 1
          /\ ~last.thrown

\* C17 (as claimed): when the 'close' handler emits 'disconnected',
\* isConnected() is false and no socket of the client is connecting or open.
C17_Claim ==
    (last.op = "close" /\ Count(last.events, "disconnected") = 1) =>
        /\ IsConnectedNow = "false"
        /\ Live = {}

\* C18 (as claimed): no registered callback is invoked more than once,
\* whether it returns a truthy value, returns a falsy value, raises or calls
\* sendRequest; after a frame invoked the callback registered under s, the
\* registry has no entry under s.
C18_Claim ==
    /\ \A s \in SeqIds : calls[s] <= 1
    /\ (last.op = "message" /\ last.invoked # <<>>) =>
          seqCallbacks[last.invoked[1].seq] = NoCb

\* C19: when the callback invoked for a response under sequence s calls
\* sendRequest with a callback, the nested request is dispatched with the next
\* sequence number, which is greater than s; after the frame was handled the
\* registry holds the nested callback under that number and nothing under s.
C19_Reentrant ==
    (/\ last.op = "message"
     /\ last.invoked # <<>>
     /\ last.invoked[1].cb = UserCb("R")) =>
        /\ ~last.thrown
        /\ Len(last.wrote) = 1
        /\ LET s == last.invoked[1].seq
               n == last.wrote[1].seq
           IN  /\ n > s
               /\ n = seq
               /\ dispatched[Len(dispatched)] = n
               /\ last.wrote[1].frame[2] = n
               /\ seqCallbacks[n] = Nested
               /\ calls[n] = 0
               /\ seqCallbacks[s] = NoCb
               /\ calls[s] = 1

\* the response to request 1 made its callback dispatch request 2
C19_Witness ==
    /\ last.op = "message"
    /\ last.invoked # <<>>
    /\ last.invoked[1].cb = UserCb("R")
    /\ last.invoked[1].seq = 1
    /\ last.wrote # <<>> /\ last.wrote[1].out = "written"
    /\ seqCallbacks[2] = Nested
    /\ seqCallbacks[1] = NoCb

\* C20: the timer of a sendRequestAsync call fires without touching the
\* registry.  The entry of a call whose timer fired stays, uninvoked, through
\* every step except a response frame carrying its sequence number: that
\* frame invokes the callback, for the only time, removes the entry and
\* leaves the promise as the timer settled it.
C20_StaleEntry ==
    [][\A p \in PromiseIds :
        /\ (last'.op = "timeout" /\ last'.cb = AsyncCb(p)) =>
              /\ seqCallbacks' = seqCallbacks
              /\ calls' = calls
        /\ \A s \in SeqIds :
              (promises[p].timer = "fired" /\ seqCallbacks[s] = AsyncCb(p)) =>
                  \/ /\ seqCallbacks'[s] = AsyncCb(p)
                     /\ calls'[s] = 0
                     /\ promises'[p] = promises[p]
                  \/ /\ last'.op = "message"
                     /\ FromBinary(last'.data).response
                     /\ FromBinary(last'.data).seq = s
                     /\ Len(last'.invoked) = 1
                     /\ last'.invoked[1].seq = s
                     /\ last'.invoked[1].cb = AsyncCb(p)
                     /\ seqCallbacks'[s] = NoCb
                     /\ calls'[s] = 1
                     /\ promises'[p] = promises[p]
      ]_vars

\* the response arrived after the timer had fired
C20_Witness ==
    /\ last.op = "message"
    /\ last.invoked # <<>>
    /\ last.invoked[1].cb = AsyncCb(1)
    /\ promises[1].timer = "fired"
    /\ promises[1].st = "rejected" /\ promises[1].val = "Timeout"
    /\ seqCallbacks[last.invoked[1].seq] = NoCb

\* C21: the 'close' handler and disconnect() invoke no callback and leave the
\* counter, the registry and the promises of sendRequestAsync as they were:
\* what was pending before is pending after.
C21_RegistryKept ==
    [][last'.op \in {"close", "disconnect"} =>
        /\ last'.invoked = <<>>
        /\ ~last'.thrown
        /\ UNCHANGED <<seq, seqCallbacks, calls, promises, dispatched>>
      ]_vars

\* disconnect() tore an open connection down, its 'close' arrived, and the
\* request of sendRequestAsync is still registered and its promise pending
C21_Witness ==
    /\ last.op = "close"
    /\ websocket = Null
    /\ seqCallbacks[1] = AsyncCb(1)
    /\ promises[1].st = "pending"
    /\ calls[1] = 0

\* C22: every connect() emits exactly one 'connecting', in the call itself,
\* with the socket it creates still connecting, and nothing else emits one.
\* 'connected' is emitted only by the 'open' signal of a socket connect()
\* created, once per signal, and a socket that has left the connecting state
\* never returns to it, so no socket gives more than one 'connected'.
C22_Lifecycle ==
    [][/\ last'.op = "connect" =>
            /\ last'.events = <<Ev("connecting", NoMsg)>>
            /\ last'.sock \notin Created
            /\ Created' = Created \cup {last'.sock}
            /\ sockets'[last'.sock].rs = "CONNECTING"
       /\ Count(last'.events, "connecting") > 0 => last'.op = "connect"
       /\ Count(last'.events, "connected") > 0 =>
            /\ last'.op = "open"
            /\ last'.events = <<Ev("connected", NoMsg)>>
            /\ last'.sock \in Created
            /\ sockets[last'.sock].rs = "CONNECTING"
            /\ sockets'[last'.sock].rs = "OPEN"
       /\ \A i \in Created :
            sockets[i].rs # "CONNECTING" => sockets'[i].rs # "CONNECTING"
      ]_vars

\* the socket of the second connect() opened
C22_Witness ==
    /\ last.op = "open"
    /\ last.sock = 2
    /\ last.events = <<Ev("connected", NoMsg)>>
    /\ sockets[1].rs \in {"CLOSING", "CLOSED"}
    /\ sockets[2].rs = "OPEN"

\* C23: the 'error' handler emits exactly one 'error' notification, carrying
\* the value the socket reported, and nothing else; it changes neither the
\* handle nor any socket's state, neither the counter nor the registry nor a
\* promise.  'disconnected' is emitted only by a 'close' signal.
C23_ErrorOnly ==
    [][/\ last'.op = "error" =>
            /\ Len(last'.events) = 1
            /\ last'.events[1].name = "error"
            /\ last'.events[1].msg.body \in ErrorValues
            /\ ~last'.thrown
            /\ last'.invoked = <<>>
            /\ last'.wrote = <<>>
            /\ IsConnectedNow' = IsConnectedNow
            /\ UNCHANGED <<seq, seqCallbacks, AppRequest, AppMessage,
                           websocket, sockets, promises, calls, dispatched>>
       /\ Count(last'.events, "disconnected") > 0 => last'.op = "close"
      ]_vars

\* an open connection with a pending callback reported the error "e2"
C23_Witness ==
    /\ last.op = "error"
    /\ last.events = <<Ev("error", ErrorValue("e2"))>>
    /\ IsConnectedNow = "true"
    /\ last.sock = websocket
    /\ seqCallbacks[1] # NoCb

\* C24: a socket is created only by a connect() call, one per call, and
\* 'connecting' is emitted only by connect(): the 'close' and 'error' handlers
\* and the timer of sendRequestAsync create no socket, leave the handle where
\* it is and emit no 'connecting'.
C24_NoReconnect ==
    [][/\ Created' # Created => last'.op = "connect"
       /\ last'.op = "connect" =>
            Cardinality(Created') = Cardinality(Created) + 1
       /\ Count(last'.events, "connecting") > 0 => last'.op = "connect"
       /\ last'.op \in {"close", "error", "timeout"} =>
            /\ Created' = Created
            /\ websocket' = websocket
            /\ Count(last'.events, "connecting") = 0
      ]_vars

\* the only connection was closed and the timer of a request fired: the
\* handle still holds the closed socket and no other socket exists
C24_Witness ==
    /\ last.op = "timeout"
    /\ Created = {1}
    /\ websocket = 1
    /\ sockets[1].rs = "CLOSED"

\* C26: sendRequestAsync called without a handle (or before the codec is
\* loaded) writes nothing, emits nothing and leaves the counter and the
\* registry as they were; its promise is pending with no registry entry.  Such
\* a promise stays so through every connect(), signal and frame, until its
\* timer fires and rejects it with the timeout error; a rejected promise
\* stays rejected with the same error.
Unregistered(p) ==
    /\ promises[p].st = "pending"
    /\ promises[p].timer = "armed"
    /\ \A s \in RegKeys : seqCallbacks[s] # AsyncCb(p)

C26_NoHandleAsync ==
    [][\A p \in PromiseIds :
        /\ (/\ last'.op = "sendRequestAsync"
            /\ last'.cb = AsyncCb(p)
            /\ (websocket \in Absent \/ ~AppRequest)) =>
              /\ last'.wrote = <<>>
              /\ last'.events = <<>>
              /\ UNCHANGED <<seq, seqCallbacks, dispatched, calls>>
              /\ Unregistered(p)'
        /\ Unregistered(p) =>
              \/ Unregistered(p)'
              \/ /\ last'.op = "timeout"
                 /\ last'.cb = AsyncCb(p)
                 /\ promises'[p].st = "rejected"
                 /\ promises'[p].val = "Timeout"
        /\ promises[p].st = "rejected" =>
              /\ promises'[p].st = "rejected"
              /\ promises'[p].val = promises[p].val
      ]_vars

\* no request was ever dispatched, yet a promise exists: it was made without
\* a handle, a connection was opened afterwards, and its timer has now fired
C26_Witness ==
    /\ last.op = "timeout"
    /\ last.cb = AsyncCb(1)
    /\ seq = 0
    /\ promises[1].st = "rejected" /\ promises[1].val = "Timeout"
    /\ IsConnectedNow = "true"

\* C25 (as claimed): disconnect() and connect() leave the registry as it is,
\* and a response that arrives on a later connection under the sequence
\* number of an entry registered on the first one invokes that entry's
\* callback, for the only time, and removes the entry.
C25_Claim ==
    [][/\ last'.op \in {"connect", "disconnect"} =>
            seqCallbacks' = seqCallbacks
       /\ (/\ last'.op = "message"
           /\ last'.sock > 1
           /\ Decodes(last'.data)
           /\ Matches(seqCallbacks, FromBinary(last'.data))) =>
             LET s == FromBinary(last'.data).seq IN
                /\ Len(last'.invoked) = 1
                /\ last'.invoked[1].seq = s
                /\ last'.invoked[1].cb = seqCallbacks[s]
                /\ calls'[s] = 1
                /\ seqCallbacks'[s] = NoCb
      ]_vars
====
